---- MODULE Spec2Model ----
(***************************************************************************)
(* Model of soypat/dgrams, package tcpctl: Socket.Listen,                  *)
(* Socket.RecvEthernet and Socket.rx over a connState, together with the   *)
(* header codecs of package dgrams that RecvEthernet calls (Spec); the     *)
(* same rx and connState.State called by several goroutines (SpecConc);    *)
(* and the checksum accumulator CRC_RFC791 (SpecCRC).                      *)
(*                                                                         *)
(* A buffer is a sequence of bytes (0..255).  Go indexes from 0, TLA+      *)
(* sequences from 1: At(b, i) is Go's b[i].                                *)
(***************************************************************************)
EXTENDS Integers, Sequences, FiniteSets, TLC

VARIABLES
    cs,     \* the Socket's connState: [state, snd, rcv]
    pc,     \* the caller: "ready" to call, "done" (a call has just returned),
            \* or "again" (the same buffer has been delivered a second time)
    buf,    \* the buffer handed to the call that has just returned
    pre,    \* the connState as it was when that call started
    ret,    \* what that call returned (or how it panicked)
    first,  \* at "again": pre and ret of the first delivery of buf
    \* Goroutines sharing one Socket (specification SpecConc):
    mu,      \* s.cs.mu: Unlocked, or the goroutine whose Lock() returned last
    ccs,     \* the shared s.cs: [state, snd, rcv]
    cpc,     \* each goroutine's position in RecvEthernet/rx or State
    cloc,    \* each goroutine's locals inside rx: hdr, err, and the case taken
    cret,    \* what each goroutine's last call returned, and by which path
    started, \* FALSE while the socket is still being set up by one goroutine
    acc,     \* the last access to s.cs: who made it, and whether that
             \* goroutine was the one holding mu
    wr,      \* which call stored s.cs.snd and each field of s.cs.rcv last
    \* One CRC_RFC791 and its caller (specification SpecCRC):
    crc,      \* the accumulator: [sum, excedent, needsPad]
    hist,     \* the bytes written since the zero state: [blocks, tail]
    cphase,   \* "writing": only Writes since the zero state; "summed": then
              \* Sum; "mixed": Writes again after a Sum
    cres,     \* the last call: [op, sum, n, panic], the length of the slice
              \* it was given, and whether it left the accumulator as it was
    twin,     \* a zero-valued CRC_RFC791 created at the last Reset and given
              \* the same calls since
    tres,     \* the result of the twin's last call
    wasReset, \* "no", or how the accumulator was when Reset was last called
    carried,  \* a Write since the zero state began with a pending odd byte
    \* One TCPHeader value and the caller of its methods (specification SpecHdr):
    thdr,     \* the header
    hprev,    \* the header as it was before the last call
    hres,     \* the last call: [op, arg, out, panic]
    \* connState.frameRcv called on its own (specification SpecFrameRcv):
    frv       \* the last call: [called, una, nxt, ack, err]

sockVars == <<cs, pc, buf, pre, ret, first>>

concVars == <<mu, ccs, cpc, cloc, cret, started, acc, wr>>

crcVars == <<crc, hist, cphase, cres, twin, tres, wasReset, carried>>

hdrVars == <<thdr, hprev, hres>>

\* The variables the socket actions leave alone.
notSock == <<concVars, crcVars, hdrVars, frv>>

\* The variables the goroutine actions leave alone.
notConc == <<sockVars, crcVars, hdrVars, frv>>

\* The variables the checksum actions leave alone.
notCRC == <<sockVars, concVars, hdrVars, frv>>

\* The variables the header actions leave alone.
notHdr == <<sockVars, concVars, crcVars, frv>>

\* The variables the frameRcv action leaves alone.
notFrameRcv == <<sockVars, concVars, crcVars, hdrVars>>

vars == <<sockVars, concVars, crcVars, hdrVars, frv>>

---------------------------------------------------------------------------
(* Bounds of the model.                                                    *)

\* Largest number of TCP payload bytes carried by a generated frame.
MaxPayload == 2

\* Number of goroutines calling into one Socket.
NumProcs == 2

\* Largest number of bytes handed to one small Write, and to all small
\* Writes between two zero states of the accumulator.
MaxChunk == 2
MaxBytes == 4

\* Largest number of 64 KiB blocks written ahead of the small Writes.
MaxBlocks == 2

---------------------------------------------------------------------------
(* Fixed-width integer arithmetic.                                         *)

Pow16 == 65536
MaxUint16 == 65535

U8(x)  == x % 256
U16(x) == x % Pow16

\* A uint32 is kept as its two 16-bit halves << high, low >>, so that every
\* intermediate value stays within the checker's integers.
U32(hi, lo) == << hi, lo >>

U32Zero == U32(0, 0)

\* uint32(w) of a uint16 w
U32FromU16(w) == U32(0, w)

\* a + n in uint32 arithmetic (n < 2^16): wraps at 2^32
U32Add(a, n) ==
    LET lo == a[2] + n
    IN  U32((a[1] + lo \div Pow16) % Pow16, lo % Pow16)

---------------------------------------------------------------------------
(* tcpctl.State                                                            *)

StateClosed      == 0
StateListen      == 1
StateSynRcvd     == 2
StateSynSent     == 3
StateEstablished == 4
StateFinWait1    == 5
StateFinWait2    == 6
StateClosing     == 7
StateTimeWait    == 8
StateCloseWait   == 9
StateLastAck     == 10

States == StateClosed..StateLastAck

\* State.String(), generated by stringer: the name of the constant.
StateString(st) ==
    CASE st = StateClosed      -> "StateClosed"
      [] st = StateListen      -> "StateListen"
      [] st = StateSynRcvd     -> "StateSynRcvd"
      [] st = StateSynSent     -> "StateSynSent"
      [] st = StateEstablished -> "StateEstablished"
      [] st = StateFinWait1    -> "StateFinWait1"
      [] st = StateFinWait2    -> "StateFinWait2"
      [] st = StateClosing     -> "StateClosing"
      [] st = StateTimeWait    -> "StateTimeWait"
      [] st = StateCloseWait   -> "StateCloseWait"
      [] st = StateLastAck     -> "StateLastAck"

---------------------------------------------------------------------------
(* dgrams constants                                                        *)

SizeEthernetHeaderNoVLAN == 14
SizeIPHeader             == 20
SizeTCPHeaderNoOptions   == 20

tcpWordlen  == 4
tcpFlagmask == 511          \* 0x01ff

FlagTCP_FIN == 1
FlagTCP_SYN == 2
FlagTCP_RST == 4
FlagTCP_PSH == 8
FlagTCP_ACK == 16

EtherTypeIPv4 == 2048       \* 0x0800
EtherTypeARP  == 2054       \* 0x0806
EtherTypeVLAN == 33024      \* 0x8100

ipProtocolTCP == 6

---------------------------------------------------------------------------
(* Byte access: encoding/binary.BigEndian and Go's slice expressions.      *)

At(b, i) == b[i + 1]

\* b[n:]
SliceFrom(b, n) == SubSeq(b, n + 1, Len(b))

BEUint16(b, i) == At(b, i) * 256 + At(b, i + 1)

BEUint32(b, i) == U32(BEUint16(b, i), BEUint16(b, i + 2))

BEPutUint16(v) == << (v \div 256) % 256, v % 256 >>

BEPutUint32(v) == BEPutUint16(v[1]) \o BEPutUint16(v[2])

---------------------------------------------------------------------------
(* Header codecs of package dgrams (headers.go).  Each Decode starts with   *)
(* a bounds check `_ = b[k]`: CanDecode says whether that check passes,     *)
(* the caller turns a failed one into the index-out-of-range panic.         *)

\* Highest index a decoder touches, relative to the slice it is given.
EthernetLastIndex == 13
IPv4LastIndex     == 19
TCPLastIndex      == 19

CanDecode(b, last) == last < Len(b)

DecodeEthernetHeader(b) ==
    [ Destination     |-> SubSeq(b, 1, 6),
      Source          |-> SubSeq(b, 7, 12),
      SizeOrEtherType |-> BEUint16(b, 12) ]

IsVLAN(ethdr) == ethdr.SizeOrEtherType = EtherTypeVLAN

DecodeIPv4Header(b) ==
    [ Version     |-> At(b, 0),
      IHL         |-> At(b, 1),
      TotalLength |-> BEUint16(b, 2),
      ID          |-> BEUint16(b, 4),
      Flags       |-> BEUint16(b, 6),
      TTL         |-> At(b, 8),
      Protocol    |-> At(b, 9),
      Checksum    |-> BEUint16(b, 10),
      Source      |-> SubSeq(b, 13, 16),
      Destination |-> SubSeq(b, 17, 20) ]

DecodeTCPHeader(b) ==
    [ SourcePort      |-> BEUint16(b, 0),
      DestinationPort |-> BEUint16(b, 2),
      Seq             |-> BEUint32(b, 4),
      Ack             |-> BEUint32(b, 8),
      OffsetAndFlags  |-> BEUint16(b, 12),
      WindowSize      |-> BEUint16(b, 14),
      Checksum        |-> BEUint16(b, 16),
      UrgentPtr       |-> BEUint16(b, 18) ]

\* The 4-bit data offset field: uint8(OffsetAndFlags >> 12).
OffsetField(tcphdr) == U8(tcphdr.OffsetAndFlags \div 4096)

\* TCPHeader.Offset panics when the field is below 5.
OffsetPanics(tcphdr) == OffsetField(tcphdr) < 5

Offset(tcphdr) == OffsetField(tcphdr)

OffsetInBytes(tcphdr) == U16(Offset(tcphdr) * tcpWordlen)

Flags(tcphdr) == tcphdr.OffsetAndFlags % (tcpFlagmask + 1)

\* EthernetHeader.Put, IPv4Header.Put and TCPHeader.Put: the bytes written.
EthernetPut(ethdr) ==
    ethdr.Destination \o ethdr.Source \o BEPutUint16(ethdr.SizeOrEtherType)

IPv4Put(iphdr) ==
    << iphdr.Version, iphdr.IHL >> \o BEPutUint16(iphdr.TotalLength)
        \o BEPutUint16(iphdr.ID) \o BEPutUint16(iphdr.Flags)
        \o << iphdr.TTL, iphdr.Protocol >> \o BEPutUint16(iphdr.Checksum)
        \o iphdr.Source \o iphdr.Destination

TCPPut(tcphdr) ==
    BEPutUint16(tcphdr.SourcePort) \o BEPutUint16(tcphdr.DestinationPort)
        \o BEPutUint32(tcphdr.Seq) \o BEPutUint32(tcphdr.Ack)
        \o BEPutUint16(tcphdr.OffsetAndFlags) \o BEPutUint16(tcphdr.WindowSize)
        \o BEPutUint16(tcphdr.Checksum) \o BEPutUint16(tcphdr.UrgentPtr)

---------------------------------------------------------------------------
(* connState (connstate.go)                                                *)

ZeroSendSpace ==
    [ UNA |-> U32Zero, NXT |-> U32Zero, WND |-> U32Zero, WL1 |-> U32Zero,
      WL2 |-> U32Zero, iss |-> U32Zero, UP |-> FALSE ]

ZeroRcvSpace == [ NXT |-> U32Zero, WND |-> U32Zero, irs |-> U32Zero, UP |-> FALSE ]

\* The zero value of connState: Socket{} starts Closed.
ZeroConnState == [ state |-> StateClosed, snd |-> ZeroSendSpace, rcv |-> ZeroRcvSpace ]

\* connState.SetState: stores the state (under the mutex).
SetState(c, st) == [ c EXCEPT !.state = st ]

---------------------------------------------------------------------------
(* Error values.  NoErr is Go's nil error.                                 *)

NoErr            == "nil"
ErrTooLong       == "buffer too long"
ErrTooShort      == "buffer too short to contain TCP"
ErrVLAN          == "VLAN not supported"
ErrNotIPv4       == "support only IPv4"
ErrTotalLength   == "IP.TotalLength exceeds buffer size"
ErrNotTCP        == "expected TCP protocol (6) in IP.Proto field"
ErrGarbageOffset == "garbage TCP.Offset"
ErrPayloadOffset == "malformed packet, got payload offset"
ErrClosed        == "connection closed"
ErrUnhandled     == "[ERR] unhandled state transition:"
ErrBadAck        == "bad ack"

\* Panics.
NoPanic          == "none"
PanicBadOffset   == "bad TCP offset"
PanicIndex       == "index out of range"

---------------------------------------------------------------------------
(* Socket.rx: the state machine's segment arrival.  The whole body runs    *)
(* between mu.Lock() and the deferred mu.Unlock().                         *)

\* The iss chosen when a SYN is accepted.
rxISS == U32Zero

\* The send window set when a SYN is accepted.
rxSendWND == 10

\* Mutant of rxAcceptSyn: snd.NXT is left at the iss.
rxAcceptSyn_nxtIsIss(c, hdr) ==
    [ c EXCEPT
        !.snd = [ ZeroSendSpace EXCEPT
                    !.iss = rxISS, !.UNA = rxISS, !.NXT = rxISS,
                    !.WND = U32FromU16(rxSendWND) ],
        !.rcv = [ ZeroRcvSpace EXCEPT
                    !.irs = hdr.Seq, !.NXT = hdr.Seq,
                    !.WND = U32FromU16(hdr.WindowSize) ] ]

\* case StateListen, once the flags are exactly SYN.
rxAcceptSyn(c, hdr) ==
    [ c EXCEPT
        !.snd = [ ZeroSendSpace EXCEPT
                    !.iss = rxISS,
                    !.UNA = rxISS,
                    !.NXT = U32Add(rxISS, 1),
                    !.WND = U32FromU16(rxSendWND) ],
        !.rcv = [ ZeroRcvSpace EXCEPT
                    !.irs = hdr.Seq,
                    !.NXT = hdr.Seq,
                    !.WND = U32FromU16(hdr.WindowSize) ] ]

\* Mutant of rxListenIgnores: tests the SYN bit instead of comparing the
\* whole flag set.
rxListenIgnores_synBit(hdr) == (Flags(hdr) \div FlagTCP_SYN) % 2 = 0

\* The test that makes the Listen case return early.
rxListenIgnores(hdr) == Flags(hdr) # FlagTCP_SYN

\* case StateListen
rxListen(c, hdr) ==
    IF rxListenIgnores(hdr)
    THEN [ cs |-> c, err |-> NoErr ]
    ELSE [ cs |-> rxAcceptSyn(c, hdr), err |-> NoErr ]

\* Mutant of rxClosed: the first segment opens the socket passively.
rxClosed_opens(c, hdr) == [ cs |-> SetState(c, StateListen), err |-> ErrClosed ]

\* Mutant of rxClosed: the segment is dropped without an error.
rxClosed_silent(c, hdr) == [ cs |-> c, err |-> NoErr ]

\* case StateClosed
rxClosed(c, hdr) == [ cs |-> c, err |-> ErrClosed ]

\* case StateSynRcvd: an empty case.
rxSynRcvd(c, hdr) == [ cs |-> c, err |-> NoErr ]

\* Mutant of rxDefault: the transition is only logged, no error is returned.
rxDefault_silent(c, hdr) == [ cs |-> c, err |-> NoErr ]

\* default
rxDefault(c, hdr) == [ cs |-> c, err |-> ErrUnhandled \o StateString(c.state) ]

rx(c, hdr) ==
    CASE c.state = StateClosed  -> rxClosed(c, hdr)
      [] c.state = StateListen  -> rxListen(c, hdr)
      [] c.state = StateSynRcvd -> rxSynRcvd(c, hdr)
      [] OTHER                  -> rxDefault(c, hdr)

---------------------------------------------------------------------------
(* Socket.RecvEthernet.  A call ends in one of three ways: it returns an    *)
(* error, it returns the payload offsets, or it panics.  maxRead is the     *)
(* highest index of buf the call has read or tried to read (-1: none),      *)
(* rxCalled says whether the segment was handed to rx.                      *)

Outcome(op, err, payloadStart, payloadEnd, pnc, maxRead, rxCalled) ==
    [ op           |-> op,
      err          |-> err,
      payloadStart |-> payloadStart,
      payloadEnd   |-> payloadEnd,
      panic        |-> pnc,
      maxRead      |-> maxRead,
      rxCalled     |-> rxCalled ]

\* return 0, 0, err before rx is reached
Reject(c, err, maxRead) ==
    [ cs |-> c, ret |-> Outcome("RecvEthernet", err, 0, 0, NoPanic, maxRead, FALSE) ]

\* a panic unwinds out of RecvEthernet before rx is reached
Panics(c, pnc, maxRead) ==
    [ cs |-> c, ret |-> Outcome("RecvEthernet", NoErr, 0, 0, pnc, maxRead, FALSE) ]

\* buflen := uint16(len(buf))
BufLen(b) == U16(Len(b))

\* case len(buf) > math.MaxUint16
BufTooLong(b) == Len(b) > MaxUint16

\* Mutant of BufTooShort: the minimum leaves out the TCP header.
BufTooShort_noTCP(buflen) == buflen < SizeEthernetHeaderNoVLAN + SizeIPHeader

\* case buflen < SizeEthernetHeaderNoVLAN+SizeIPHeader+SizeTCPHeaderNoOptions
BufTooShort(buflen) ==
    buflen < SizeEthernetHeaderNoVLAN + SizeIPHeader + SizeTCPHeaderNoOptions

\* eth.SizeOrEtherType != uint16(dgrams.EtherTypeIPv4)
NotIPv4(eth) == eth.SizeOrEtherType # EtherTypeIPv4

\* payloadEnd = ip.TotalLength + dgrams.SizeEthernetHeaderNoVLAN   (uint16)
PayloadEndOf(ip) == U16(ip.TotalLength + SizeEthernetHeaderNoVLAN)

\* payloadEnd > buflen
TotalLengthExceeds(payloadEnd, buflen) == payloadEnd > buflen

\* ip.Protocol != 6
NotTCP(ip) == ip.Protocol # ipProtocolTCP

\* nb < 20
GarbageOffset(nb) == nb < 20

\* Mutant of PayloadStartOf: the IPv4 header is left out of the offset.
PayloadStartOf_noIP(nb) == U16(nb + SizeEthernetHeaderNoVLAN)

\* payloadStart = nb + SizeEthernetHeaderNoVLAN + SizeIPHeader   (uint16)
PayloadStartOf(nb) == U16(nb + SizeEthernetHeaderNoVLAN + SizeIPHeader)

\* payloadStart > buflen
PayloadStartExceeds(payloadStart, buflen) == payloadStart > buflen

\* Offsets at which buf is sliced for the IPv4 and the TCP decoder.
IPv4At == SizeEthernetHeaderNoVLAN
TCPAt  == SizeEthernetHeaderNoVLAN + SizeIPHeader

\* From tcp := DecodeTCPHeader(...) to the end of the function.
RecvTCPPart(c, b, buflen, payloadEnd) ==
    IF ~ (TCPAt <= Len(b) /\ CanDecode(SliceFrom(b, TCPAt), TCPLastIndex))
    THEN Panics(c, PanicIndex, TCPAt + TCPLastIndex)
    ELSE
    LET tcp  == DecodeTCPHeader(SliceFrom(b, TCPAt))
        read == TCPAt + TCPLastIndex
    IN  IF OffsetPanics(tcp) THEN Panics(c, PanicBadOffset, read)
        ELSE
        LET nb           == OffsetInBytes(tcp)
            payloadStart == PayloadStartOf(nb)
        IN  IF GarbageOffset(nb) THEN Reject(c, ErrGarbageOffset, read)
            ELSE IF PayloadStartExceeds(payloadStart, buflen)
            THEN Reject(c, ErrPayloadOffset, read)
            ELSE
            LET r == rx(c, tcp)
            IN  IF r.err # NoErr
                THEN [ cs  |-> r.cs,
                       ret |-> Outcome("RecvEthernet", r.err, 0, 0, NoPanic, read, TRUE) ]
                ELSE [ cs  |-> r.cs,
                       ret |-> Outcome("RecvEthernet", NoErr, payloadStart, payloadEnd,
                                       NoPanic, read, TRUE) ]

\* From ip := DecodeIPv4Header(...) on.
RecvIPPart(c, b, buflen) ==
    IF ~ (IPv4At <= Len(b) /\ CanDecode(SliceFrom(b, IPv4At), IPv4LastIndex))
    THEN Panics(c, PanicIndex, IPv4At + IPv4LastIndex)
    ELSE
    LET ip         == DecodeIPv4Header(SliceFrom(b, IPv4At))
        read       == IPv4At + IPv4LastIndex
        payloadEnd == PayloadEndOf(ip)
    IN  IF TotalLengthExceeds(payloadEnd, buflen) THEN Reject(c, ErrTotalLength, read)
        ELSE IF NotTCP(ip) THEN Reject(c, ErrNotTCP, read)
        ELSE RecvTCPPart(c, b, buflen, payloadEnd)

RecvEthernet(c, b) ==
    LET buflen == BufLen(b)
    IN  IF BufTooLong(b) THEN Reject(c, ErrTooLong, -1)
        ELSE IF BufTooShort(buflen) THEN Reject(c, ErrTooShort, -1)
        ELSE IF ~ CanDecode(b, EthernetLastIndex)
        THEN Panics(c, PanicIndex, EthernetLastIndex)
        ELSE
        LET eth == DecodeEthernetHeader(b)
        IN  IF IsVLAN(eth) THEN Reject(c, ErrVLAN, EthernetLastIndex)
            ELSE IF NotIPv4(eth) THEN Reject(c, ErrNotIPv4, EthernetLastIndex)
            ELSE RecvIPPart(c, b, buflen)

\* Socket.Listen
Listen(c) == SetState(c, StateListen)

---------------------------------------------------------------------------
(* The frames delivered to the socket.                                     *)

\* packetSyn of the package's test: 192.168.1.112 -> 192.168.1.5,
\* 58920 -> 80 [SYN] Seq=0x3eab64f7 Win=64240 Len=0, 20 bytes of options.
packetSyn ==
    <<
       222, 173, 190, 239, 254, 255, 40, 210, 68, 154, 47, 243, 8, 0, 69, 0,
       0, 60, 44, 218, 64, 0, 64, 6, 138, 28, 192, 168, 1, 112, 192, 168,
       1, 5, 230, 40, 0, 80, 62, 171, 100, 247, 0, 0, 0, 0, 160, 2,
       250, 240, 191, 76, 0, 0, 2, 4, 5, 180, 4, 2, 8, 10, 8, 162,
       119, 63, 0, 0, 0, 0, 1, 3, 3, 7
    >>

\* The header fields a generated frame is built from; those of packetSyn
\* unless a family below varies them.
BaseFields ==
    [ etype |-> EtherTypeIPv4, totlen |-> 40, proto |-> ipProtocolTCP,
      words |-> 5, rsv |-> 0, flags |-> FlagTCP_SYN,
      seq |-> U32Zero, ack |-> U32Zero, wnd |-> 64240 ]

HeaderBytes(f) ==
    EthernetPut([ Destination     |-> << 222, 173, 190, 239, 254, 255 >>,
                  Source          |-> << 40, 210, 68, 154, 47, 243 >>,
                  SizeOrEtherType |-> f.etype ])
    \o IPv4Put([ Version |-> 69, IHL |-> 0, TotalLength |-> f.totlen, ID |-> 11482,
                 Flags |-> 16384, TTL |-> 64, Protocol |-> f.proto, Checksum |-> 0,
                 Source      |-> << 192, 168, 1, 112 >>,
                 Destination |-> << 192, 168, 1, 5 >> ])
    \o TCPPut([ SourcePort |-> 58920, DestinationPort |-> 80,
                Seq |-> f.seq, Ack |-> f.ack,
                OffsetAndFlags |-> f.words * 4096 + f.rsv * 512 + f.flags,
                WindowSize |-> f.wnd, Checksum |-> 0, UrgentPtr |-> 0 ])

\* A buffer of n bytes: the headers of f (cut short when n is smaller),
\* followed by zero bytes.
Frame(n, f) ==
    LET h == HeaderBytes(f)
    IN  [ i \in 1..n |-> IF i <= Len(h) THEN h[i] ELSE 0 ]

\* 0, 0x3eab64f7 (packetSyn's), 0xffffffff
SeqValues    == { U32Zero, U32(16043, 25847), U32(65535, 65535) }
AckValues    == { U32Zero, U32(0, 1), U32(0, 2) }
WindowValues == { 0, 64240 }
FlagValues   == { 0, FlagTCP_SYN, FlagTCP_ACK, FlagTCP_RST, FlagTCP_FIN,
                  FlagTCP_SYN + FlagTCP_ACK, FlagTCP_SYN + 256 }
WordValues   == { 5, 6, 10, 15 }

\* Whole segments without options or payload, the TCP fields varied.
FieldFrames ==
    { Frame(54, [ BaseFields EXCEPT !.flags = fl, !.seq = sq, !.wnd = w, !.rsv = r ]) :
        fl \in FlagValues, sq \in SeqValues, w \in WindowValues, r \in {0} }
    \cup
    { Frame(54, [ BaseFields EXCEPT !.flags = fl, !.ack = a, !.rsv = r ]) :
        fl \in { FlagTCP_ACK, FlagTCP_SYN + FlagTCP_ACK, FlagTCP_SYN },
        a \in AckValues, r \in {0, 1} }

\* Whole segments, the sizes varied: options, payload, bytes after the datagram.
ShapeFrames ==
    { Frame(34 + 4 * w + p + slack,
            [ BaseFields EXCEPT !.words = w, !.totlen = 20 + 4 * w + p, !.flags = fl ]) :
        w \in WordValues, p \in 0..MaxPayload, slack \in {0, 6},
        fl \in { FlagTCP_SYN, FlagTCP_ACK } }

\* Frames with one or several fields wrong.
BadFieldFrames ==
    { Frame(n, [ BaseFields EXCEPT !.etype = e, !.totlen = t, !.proto = pr, !.words = w ]) :
        n \in {54}, e \in { EtherTypeIPv4, EtherTypeVLAN, EtherTypeARP },
        t \in { 20, 40, 41, 65535 }, pr \in { ipProtocolTCP, 17 }, w \in { 4, 5, 6, 15 } }
    \cup
    { Frame(n, [ BaseFields EXCEPT !.totlen = t, !.words = w ]) :
        n \in {58, 60}, t \in { 0, 39, 44, 45, 65522, 65530 }, w \in { 0, 5, 6 } }

\* Buffers too short or too long; 65590 is 54 modulo 2^16.
BadLengthFrames ==
    { Frame(n, [ BaseFields EXCEPT !.etype = e, !.totlen = t ]) :
        n \in { 0, 10, 13, 14, 33, 34, 53 }, e \in { EtherTypeIPv4, EtherTypeVLAN },
        t \in { 20, 40 } }
    \cup { Frame(n, BaseFields) : n \in { 65536, 65590 } }

Frames == { packetSyn } \cup FieldFrames \cup ShapeFrames \cup BadFieldFrames
              \cup BadLengthFrames

---------------------------------------------------------------------------
(* The state machine.                                                      *)

NoCall == Outcome("none", NoErr, 0, 0, NoPanic, -1, FALSE)

NoFirst == [ pre |-> ZeroConnState, ret |-> NoCall ]

InitSocket ==
    /\ cs  = ZeroConnState
    /\ pc  = "ready"
    /\ buf = << >>
    /\ pre = ZeroConnState
    /\ ret = NoCall
    /\ first = NoFirst

\* s.Listen()
DoListen ==
    /\ pc = "ready"
    /\ cs'  = Listen(cs)
    /\ pc'  = "done"
    /\ pre' = cs
    /\ buf' = << >>
    /\ ret' = Outcome("Listen", NoErr, 0, 0, NoPanic, -1, FALSE)
    /\ UNCHANGED first
    /\ UNCHANGED notSock

\* s.cs.SetState(st), called from inside the package.
DoSetState ==
    /\ pc = "ready"
    /\ \E st \in States :
        /\ cs'  = SetState(cs, st)
        /\ pc'  = "done"
        /\ pre' = cs
        /\ buf' = << >>
        /\ ret' = Outcome("SetState", NoErr, 0, 0, NoPanic, -1, FALSE)
    /\ UNCHANGED first
    /\ UNCHANGED notSock

\* start, end, err := s.RecvEthernet(b)
DoRecvEthernet ==
    /\ pc = "ready"
    /\ \E b \in Frames :
        LET r == RecvEthernet(cs, b)
        IN  /\ cs'  = r.cs
            /\ pc'  = "done"
            /\ pre' = cs
            /\ buf' = b
            /\ ret' = r.ret
    /\ UNCHANGED first
    /\ UNCHANGED notSock

\* The caller hands the buffer of the call that has just returned to
\* RecvEthernet a second time.
DoRecvAgain ==
    /\ pc = "done" /\ ret.op = "RecvEthernet"
    /\ LET r == RecvEthernet(cs, buf)
       IN  /\ cs'  = r.cs
           /\ pc'  = "again"
           /\ pre' = cs
           /\ ret' = r.ret
           /\ first' = [ pre |-> pre, ret |-> ret ]
    /\ UNCHANGED buf
    /\ UNCHANGED notSock

\* The caller has looked at the result and goes on to its next call
\* (the receive loop of the tap test).
NextCall ==
    /\ pc \in { "done", "again" }
    /\ pc'  = "ready"
    /\ pre' = cs
    /\ buf' = << >>
    /\ ret' = NoCall
    /\ first' = NoFirst
    /\ UNCHANGED cs
    /\ UNCHANGED notSock

Next == DoListen \/ DoSetState \/ DoRecvEthernet \/ DoRecvAgain \/ NextCall

---------------------------------------------------------------------------
(* Goroutines sharing one Socket.  rx and State are cut into the steps     *)
(* between which another goroutine can run: Lock, the read of s.cs.state,  *)
(* each store into s.cs, and the deferred Unlock.                          *)

Procs == 1..NumProcs

Unlocked == 0

\* sync.Mutex.Lock returns only when the mutex is not held.
MutexCanLock_always(m) == TRUE

MutexCanLock(m) == m = Unlocked

NoHdr == DecodeTCPHeader(SliceFrom(Frame(54, [ BaseFields EXCEPT !.flags = 0 ]), TCPAt))

NoLocals == [ hdr |-> NoHdr, err |-> NoErr, path |-> "none" ]

NoRet == [ op |-> "none", err |-> NoErr, path |-> "none", state |-> StateClosed ]

NoAccess == [ proc |-> Unlocked, held |-> TRUE ]

\* A call of rx is named by its goroutine and its segment's sequence number.
NoTag == [ proc |-> Unlocked, seq |-> U32Zero ]

TagOf(p, hdr) == [ proc |-> p, seq |-> hdr.Seq ]

NoWriters == [ snd |-> NoTag, irs |-> NoTag, NXT |-> NoTag, WND |-> NoTag ]

\* The buffers the goroutines deliver: two SYNs that differ in sequence
\* number and window, an ACK, and a frame RecvEthernet rejects before rx.
ConcFrames ==
    { Frame(54, [ BaseFields EXCEPT !.seq = U32(0, 1), !.wnd = 1 ]),
      Frame(54, [ BaseFields EXCEPT !.seq = U32(0, 2), !.wnd = 2 ]),
      Frame(54, [ BaseFields EXCEPT !.flags = FlagTCP_ACK ]),
      Frame(54, [ BaseFields EXCEPT !.etype = EtherTypeARP ]) }

\* The states the socket is put into before the goroutines start.
ConcStates == { StateClosed, StateListen, StateSynRcvd, StateEstablished }

InitConc ==
    /\ mu   = Unlocked
    /\ ccs  = ZeroConnState
    /\ cpc  = [ p \in Procs |-> "idle" ]
    /\ cloc = [ p \in Procs |-> NoLocals ]
    /\ cret = [ p \in Procs |-> NoRet ]
    /\ started = FALSE
    /\ acc  = NoAccess
    /\ wr   = NoWriters

\* s.Listen() or s.cs.SetState(st) by the goroutine that creates the socket,
\* before it is shared.
ConcSetState ==
    /\ ~ started
    /\ \E st \in ConcStates : ccs' = SetState(ccs, st)
    /\ UNCHANGED <<mu, cpc, cloc, cret, started, acc>>
    /\ UNCHANGED wr
    /\ UNCHANGED notConc

\* A goroutine calls s.RecvEthernet(b).  Everything before s.rx(&tcp) works
\* on the buffer alone; a buffer that is rejected returns at once.
GoRecvEthernet(p) ==
    /\ cpc[p] = "idle"
    /\ \E b \in ConcFrames :
        LET r == RecvEthernet(ZeroConnState, b).ret
        IN  IF r.rxCalled
            THEN /\ cpc'  = [ cpc EXCEPT ![p] = "rx_lock" ]
                 /\ cloc' = [ cloc EXCEPT
                                ![p] = [ hdr  |-> DecodeTCPHeader(SliceFrom(b, TCPAt)),
                                         err  |-> NoErr,
                                         path |-> "none" ] ]
                 /\ cret' = [ cret EXCEPT ![p] = NoRet ]
            ELSE /\ cret' = [ cret EXCEPT
                                ![p] = [ op |-> "RecvEthernet", err |-> r.err,
                                         path |-> "rejected", state |-> StateClosed ] ]
                 /\ UNCHANGED <<cpc, cloc>>
    /\ started' = TRUE
    /\ UNCHANGED <<mu, ccs, acc>>
    /\ UNCHANGED wr
    /\ UNCHANGED notConc

\* s.cs.mu.Lock()
RxLock(p) ==
    /\ cpc[p] = "rx_lock"
    /\ MutexCanLock(mu)
    /\ mu'  = p
    /\ cpc' = [ cpc EXCEPT ![p] = "rx_switch" ]
    /\ UNCHANGED <<ccs, cloc, cret, started, acc>>
    /\ UNCHANGED wr
    /\ UNCHANGED notConc

\* Where rx goes after switch s.cs.state, and the err it has set.
rxSwitch(c, hdr) ==
    CASE c.state = StateClosed ->
            [ pc |-> "rx_unlock", err |-> rxClosed(c, hdr).err, path |-> "closed" ]
      [] c.state = StateListen ->
            IF rxListenIgnores(hdr)
            THEN [ pc |-> "rx_unlock", err |-> NoErr, path |-> "early" ]
            ELSE [ pc |-> "rx_snd", err |-> NoErr, path |-> "syn" ]
      [] c.state = StateSynRcvd ->
            [ pc |-> "rx_unlock", err |-> rxSynRcvd(c, hdr).err, path |-> "synrcvd" ]
      [] OTHER ->
            [ pc |-> "rx_unlock", err |-> rxDefault(c, hdr).err, path |-> "default" ]

\* switch s.cs.state { ... }: the read of the state and the branch.
RxSwitch(p) ==
    /\ cpc[p] = "rx_switch"
    /\ LET r == rxSwitch(ccs, cloc[p].hdr)
       IN  /\ cpc'  = [ cpc EXCEPT ![p] = r.pc ]
           /\ cloc' = [ cloc EXCEPT ![p].err = r.err, ![p].path = r.path ]
    /\ acc' = [ proc |-> p, held |-> mu = p ]
    /\ UNCHANGED <<mu, ccs, cret, started>>
    /\ UNCHANGED wr
    /\ UNCHANGED notConc

\* s.cs.snd = sendSpace{...}
RxWriteSnd(p) ==
    /\ cpc[p] = "rx_snd"
    /\ ccs' = [ ccs EXCEPT !.snd = rxAcceptSyn(ccs, cloc[p].hdr).snd ]
    /\ cpc' = [ cpc EXCEPT ![p] = "rx_irs" ]
    /\ acc' = [ proc |-> p, held |-> mu = p ]
    /\ UNCHANGED <<mu, cloc, cret, started>>
    /\ wr' = [ wr EXCEPT !.snd = TagOf(p, cloc[p].hdr) ]
    /\ UNCHANGED notConc

\* s.cs.rcv = rcvSpace{...}: the store of irs
RxWriteIrs(p) ==
    /\ cpc[p] = "rx_irs"
    /\ ccs' = [ ccs EXCEPT !.rcv.irs = rxAcceptSyn(ccs, cloc[p].hdr).rcv.irs ]
    /\ cpc' = [ cpc EXCEPT ![p] = "rx_nxt" ]
    /\ acc' = [ proc |-> p, held |-> mu = p ]
    /\ UNCHANGED <<mu, cloc, cret, started>>
    /\ wr' = [ wr EXCEPT !.irs = TagOf(p, cloc[p].hdr) ]
    /\ UNCHANGED notConc

\* s.cs.rcv = rcvSpace{...}: the store of NXT
RxWriteNXT(p) ==
    /\ cpc[p] = "rx_nxt"
    /\ ccs' = [ ccs EXCEPT !.rcv.NXT = rxAcceptSyn(ccs, cloc[p].hdr).rcv.NXT ]
    /\ cpc' = [ cpc EXCEPT ![p] = "rx_wnd" ]
    /\ acc' = [ proc |-> p, held |-> mu = p ]
    /\ UNCHANGED <<mu, cloc, cret, started>>
    /\ wr' = [ wr EXCEPT !.NXT = TagOf(p, cloc[p].hdr) ]
    /\ UNCHANGED notConc

\* s.cs.rcv = rcvSpace{...}: the stores of WND and UP
RxWriteWND(p) ==
    /\ cpc[p] = "rx_wnd"
    /\ ccs' = [ ccs EXCEPT !.rcv.WND = rxAcceptSyn(ccs, cloc[p].hdr).rcv.WND,
                           !.rcv.UP  = rxAcceptSyn(ccs, cloc[p].hdr).rcv.UP ]
    /\ cpc' = [ cpc EXCEPT ![p] = "rx_unlock" ]
    /\ acc' = [ proc |-> p, held |-> mu = p ]
    /\ UNCHANGED <<mu, cloc, cret, started>>
    /\ wr' = [ wr EXCEPT !.WND = TagOf(p, cloc[p].hdr) ]
    /\ UNCHANGED notConc

\* return: the deferred s.cs.mu.Unlock() runs, then rx and RecvEthernet
\* return err to the caller.
RxUnlock(p) ==
    /\ cpc[p] = "rx_unlock"
    /\ mu'   = Unlocked
    /\ cpc'  = [ cpc EXCEPT ![p] = "idle" ]
    /\ cret' = [ cret EXCEPT
                    ![p] = [ op |-> "RecvEthernet", err |-> cloc[p].err,
                             path |-> cloc[p].path, state |-> StateClosed ] ]
    /\ cloc' = [ cloc EXCEPT ![p] = NoLocals ]
    /\ UNCHANGED <<ccs, started, acc>>
    /\ UNCHANGED wr
    /\ UNCHANGED notConc

\* A goroutine calls s.cs.State().
GoState(p) ==
    /\ cpc[p] = "idle"
    /\ cpc'  = [ cpc EXCEPT ![p] = "st_lock" ]
    /\ cret' = [ cret EXCEPT ![p] = NoRet ]
    /\ started' = TRUE
    /\ UNCHANGED <<mu, ccs, cloc, acc>>
    /\ UNCHANGED wr
    /\ UNCHANGED notConc

\* cs.mu.Lock()
StLock(p) ==
    /\ cpc[p] = "st_lock"
    /\ MutexCanLock(mu)
    /\ mu'  = p
    /\ cpc' = [ cpc EXCEPT ![p] = "st_read" ]
    /\ UNCHANGED <<ccs, cloc, cret, started, acc>>
    /\ UNCHANGED wr
    /\ UNCHANGED notConc

\* the operand of return cs.state is evaluated
StRead(p) ==
    /\ cpc[p] = "st_read"
    /\ cret' = [ cret EXCEPT
                    ![p] = [ op |-> "State", err |-> NoErr,
                             path |-> "state", state |-> ccs.state ] ]
    /\ cpc' = [ cpc EXCEPT ![p] = "st_unlock" ]
    /\ acc' = [ proc |-> p, held |-> mu = p ]
    /\ UNCHANGED <<mu, ccs, cloc, started>>
    /\ UNCHANGED wr
    /\ UNCHANGED notConc

\* the deferred cs.mu.Unlock() runs and State returns
StUnlock(p) ==
    /\ cpc[p] = "st_unlock"
    /\ mu'  = Unlocked
    /\ cpc' = [ cpc EXCEPT ![p] = "idle" ]
    /\ UNCHANGED <<ccs, cloc, cret, started, acc>>
    /\ UNCHANGED wr
    /\ UNCHANGED notConc

NextConc ==
    \/ ConcSetState
    \/ \E p \in Procs : GoRecvEthernet(p)
    \/ \E p \in Procs : RxLock(p)
    \/ \E p \in Procs : RxSwitch(p)
    \/ \E p \in Procs : RxWriteSnd(p)
    \/ \E p \in Procs : RxWriteIrs(p)
    \/ \E p \in Procs : RxWriteNXT(p)
    \/ \E p \in Procs : RxWriteWND(p)
    \/ \E p \in Procs : RxUnlock(p)
    \/ \E p \in Procs : GoState(p)
    \/ \E p \in Procs : StLock(p)
    \/ \E p \in Procs : StRead(p)
    \/ \E p \in Procs : StUnlock(p)

---------------------------------------------------------------------------
(* CRC_RFC791, the streaming Internet checksum (crc.go).                   *)

\* a + b in uint32 arithmetic: wraps at 2^32
U32Plus(a, b) ==
    LET lo == a[2] + b[2]
    IN  U32((a[1] + b[1] + lo \div Pow16) % Pow16, lo % Pow16)

\* uint32(x) for 0 <= x < 2^31
U32FromInt(x) == U32(x \div Pow16, x % Pow16)

\* The zero value of CRC_RFC791.
ZeroCRC == [ sum |-> U32Zero, excedent |-> 0, needsPad |-> FALSE ]

\* binary.BigEndian.Uint16(buff[i*2 : i*2+2]), buff being b[off:]
WordAt(b, off, i) == At(b, off + 2 * i) * 256 + At(b, off + 2 * i + 1)

\* for i := lo; i < hi; i++ { sum += uint32(word i) }, starting from 0.
\* uint32 addition is associative and commutative, so the range is summed
\* by halves; the result is the one the loop reaches.
RECURSIVE SumWords(_, _, _, _)
SumWords(b, off, lo, hi) ==
    IF hi <= lo THEN U32Zero
    ELSE IF hi = lo + 1 THEN U32FromInt(WordAt(b, off, lo))
    ELSE LET mid == (lo + hi) \div 2
         IN  U32Plus(SumWords(b, off, lo, mid), SumWords(b, off, mid, hi))

\* Mutant of Write: a pending odd byte is dropped when the next slice comes.
Write_dropsPending(c, buff) ==
    LET len == Len(buff)
        n   == len \div 2
        odd == len % 2 # 0
    IN  [ c |-> [ sum      |-> U32Plus(c.sum, SumWords(buff, 0, 0, n)),
                  excedent |-> IF odd THEN At(buff, len - 1) ELSE c.excedent,
                  needsPad |-> odd ],
          n |-> 2 * n,
          panic |-> NoPanic ]

\* func (c *CRC_RFC791) Write(buff []byte) (n int, err error)
\* buff[0] of an empty slice panics before c.sum is assigned.
Write(c, buff) ==
    IF c.needsPad /\ Len(buff) = 0
    THEN [ c |-> c, n |-> 0, panic |-> PanicIndex ]
    ELSE
    LET off  == IF c.needsPad THEN 1 ELSE 0
        sum1 == IF c.needsPad
                THEN U32Plus(c.sum, U32FromInt(c.excedent * 256 + At(buff, 0)))
                ELSE c.sum
        len  == Len(buff) - off
        n    == len \div 2
        odd  == len % 2 # 0
    IN  [ c |-> [ sum      |-> U32Plus(sum1, SumWords(buff, off, 0, n)),
                  excedent |-> IF odd THEN At(buff, off + len - 1) ELSE c.excedent,
                  needsPad |-> odd ],
          n |-> IF odd THEN len - 1 ELSE len,
          panic |-> NoPanic ]

\* for c.sum > 0xffff { c.sum = c.sum&0xffff + c.sum>>16 }
RECURSIVE Fold(_)
Fold(s) == IF s[1] = 0 THEN s ELSE Fold(U32FromInt(s[2] + s[1]))

\* func (c *CRC_RFC791) Sum() uint16
Sum(c) ==
    LET padded == IF c.needsPad THEN U32Plus(c.sum, U32FromInt(c.excedent * 256))
                  ELSE c.sum
        folded == Fold(padded)
    IN  [ c   |-> [ c EXCEPT !.sum = folded, !.needsPad = FALSE ],
          sum |-> MaxUint16 - folded[2] ]

\* Mutant of Reset: the pending odd byte survives.
Reset_keepsPending(c) == [ c EXCEPT !.sum = U32Zero ]

\* func (c *CRC_RFC791) Reset()
Reset(c) == [ sum |-> U32Zero, excedent |-> 0, needsPad |-> FALSE ]

\* The slices the caller writes: up to MaxChunk bytes each ...
ByteValues == { 0, 1, 255 }

Chunks == UNION { [ 1..n -> ByteValues ] : n \in 0..MaxChunk }

\* ... and blocks of 64 KiB of 0xff.
BlockLen == 65536

RECURSIVE Repeat(_, _)
Repeat(b, n) ==
    IF n = 0 THEN << >>
    ELSE IF n = 1 THEN << b >>
    ELSE Repeat(b, n \div 2) \o Repeat(b, n - n \div 2)

Block == Repeat(255, BlockLen)

RECURSIVE Blocks(_)
Blocks(k) == IF k = 0 THEN << >> ELSE Block \o Blocks(k - 1)

\* The byte sequence a history stands for.
Bytes(h) == Blocks(h.blocks) \o h.tail

NoHist == [ blocks |-> 0, tail |-> << >> ]

NoRes == [ op |-> "none", sum |-> 0, n |-> 0, panic |-> NoPanic,
           len |-> 0, same |-> TRUE ]

InitCRC ==
    /\ crc  = ZeroCRC
    /\ hist = NoHist
    /\ cphase = "writing"
    /\ cres = NoRes
    /\ twin = ZeroCRC
    /\ tres = NoRes
    /\ wasReset = "no"
    /\ carried = FALSE

\* n, err := crc.Write(buff)
DoWrite ==
    /\ \E buff \in Chunks :
        /\ Len(hist.tail) + Len(buff) <= MaxBytes
        /\ LET r == Write(crc, buff)
               t == Write(twin, buff)
           IN  /\ crc'  = r.c
               /\ cres' = [ op |-> "Write", sum |-> 0, n |-> r.n, panic |-> r.panic,
                            len |-> Len(buff), same |-> r.c = crc ]
               /\ twin' = t.c
               /\ tres' = [ op |-> "Write", sum |-> 0, n |-> t.n, panic |-> t.panic,
                            len |-> Len(buff), same |-> t.c = twin ]
               /\ hist' = IF r.panic = NoPanic
                          THEN [ hist EXCEPT !.tail = @ \o buff ] ELSE hist
               /\ carried' = (carried \/ (crc.needsPad /\ Len(buff) > 0))
    /\ cphase' = IF cphase = "writing" THEN "writing" ELSE "mixed"
    /\ UNCHANGED wasReset
    /\ UNCHANGED notCRC

\* crc.Write(block) with a 64 KiB buffer, ahead of the small Writes.
DoWriteBlock ==
    /\ cphase = "writing" /\ hist.tail = << >> /\ hist.blocks < MaxBlocks
    /\ LET r == Write(crc, Block)
           t == Write(twin, Block)
       IN  /\ crc'  = r.c
           /\ cres' = [ op |-> "Write", sum |-> 0, n |-> r.n, panic |-> r.panic,
                        len |-> BlockLen, same |-> r.c = crc ]
           /\ twin' = t.c
           /\ tres' = [ op |-> "Write", sum |-> 0, n |-> t.n, panic |-> t.panic,
                        len |-> BlockLen, same |-> t.c = twin ]
    /\ hist' = [ hist EXCEPT !.blocks = @ + 1 ]
    /\ UNCHANGED <<cphase, wasReset, carried>>
    /\ UNCHANGED notCRC

\* v := crc.Sum()
DoSum ==
    /\ LET r == Sum(crc)
           t == Sum(twin)
       IN  /\ crc'  = r.c
           /\ cres' = [ op |-> "Sum", sum |-> r.sum, n |-> 0, panic |-> NoPanic,
                        len |-> 0, same |-> r.c = crc ]
           /\ twin' = t.c
           /\ tres' = [ op |-> "Sum", sum |-> t.sum, n |-> 0, panic |-> NoPanic,
                        len |-> 0, same |-> t.c = twin ]
    /\ cphase' = IF cphase = "writing" THEN "summed" ELSE cphase
    /\ UNCHANGED <<hist, wasReset, carried>>
    /\ UNCHANGED notCRC

\* crc.Reset(); from here on the twin is a new zero-valued accumulator.
DoReset ==
    /\ cres.op # "Reset"
    /\ crc'  = Reset(crc)
    /\ twin' = ZeroCRC
    /\ cres' = [ NoRes EXCEPT !.op = "Reset" ]
    /\ tres' = NoRes
    /\ hist' = NoHist
    /\ cphase' = "writing"
    /\ wasReset' = IF crc.needsPad THEN "pending" ELSE "even"
    /\ carried' = FALSE
    /\ UNCHANGED notCRC

NextCRC == DoWrite \/ DoWriteBlock \/ DoSum \/ DoReset

---------------------------------------------------------------------------
(* TCPHeader's accessors for the offset and the flags (headers.go).        *)

\* a | b on non-negative integers
RECURSIVE BitOr(_, _)
BitOr(a, b) ==
    IF a = 0 THEN b
    ELSE IF b = 0 THEN a
    ELSE (IF a % 2 = 1 \/ b % 2 = 1 THEN 1 ELSE 0) + 2 * BitOr(a \div 2, b \div 2)

PanicOffsetTooLarge == "attempted to set an offset too large"

\* if tcpWords > 0b1111 { panic(...) }
SetOffsetPanics(tcpWords) == tcpWords > 15

\* func (tcphdr *TCPHeader) SetOffset(tcpWords uint8)
\*   onlyFlags := tcphdr.OffsetAndFlags[0] & tcpFlagmask
\*   tcphdr.OffsetAndFlags[0] |= onlyFlags | (uint16(tcpWords) << 12)
SetOffset(h, tcpWords) ==
    LET onlyFlags == h.OffsetAndFlags % (tcpFlagmask + 1)
    IN  [ h EXCEPT !.OffsetAndFlags =
            BitOr(@, BitOr(onlyFlags, U16(tcpWords * 4096))) ]

\* func (tcphdr *TCPHeader) SetFlags(v TCPFlags)
\*   onlyOffset := tcphdr.OffsetAndFlags[0] &^ tcpFlagmask
\*   tcphdr.OffsetAndFlags[0] = onlyOffset | uint16(v)&tcpFlagmask
SetFlags(h, v) ==
    LET onlyOffset == h.OffsetAndFlags - (h.OffsetAndFlags % (tcpFlagmask + 1))
    IN  [ h EXCEPT !.OffsetAndFlags = BitOr(onlyOffset, v % (tcpFlagmask + 1)) ]

\* func (tcphdr *TCPHeader) OptionsLength() uint16
\*   return tcphdr.OffsetInBytes()*tcpWordlen - 20
OptionsLength(h) == U16(OffsetInBytes(h) * tcpWordlen - 20 + Pow16)

\* The zero value of TCPHeader.
ZeroTCPHeader ==
    [ SourcePort |-> 0, DestinationPort |-> 0, Seq |-> U32Zero, Ack |-> U32Zero,
      OffsetAndFlags |-> 0, WindowSize |-> 0, Checksum |-> 0, UrgentPtr |-> 0 ]

\* The headers the caller decodes: offsets below, at and above 5, reserved
\* bits clear and set, several flag sets.
HdrFrames ==
    { Frame(54, [ BaseFields EXCEPT !.words = w, !.rsv = r, !.flags = f ]) :
        w \in { 0, 4, 5, 10, 15 }, r \in { 0, 7 },
        f \in { 0, FlagTCP_SYN, FlagTCP_SYN + FlagTCP_ACK, tcpFlagmask } }

\* The arguments the caller passes to SetOffset and to SetFlags.
SetOffsetArgs == 0..16
SetFlagsArgs  == { 0, FlagTCP_SYN, FlagTCP_ACK + FlagTCP_FIN, tcpFlagmask }

NoHdrCall == [ op |-> "none", arg |-> 0, out |-> 0, panic |-> NoPanic ]

InitHdr ==
    /\ thdr = ZeroTCPHeader
    /\ hprev  = ZeroTCPHeader
    /\ hres   = NoHdrCall

\* tcp := dgrams.DecodeTCPHeader(buf[34:])
DoDecodeTCPHeader ==
    /\ \E b \in HdrFrames : thdr' = DecodeTCPHeader(SliceFrom(b, TCPAt))
    /\ hprev' = thdr
    /\ hres'  = [ NoHdrCall EXCEPT !.op = "DecodeTCPHeader" ]
    /\ UNCHANGED notHdr

\* tcp.SetOffset(w)
DoSetOffset ==
    /\ \E w \in SetOffsetArgs :
        IF SetOffsetPanics(w)
        THEN /\ thdr' = thdr
             /\ hres' = [ op |-> "SetOffset", arg |-> w, out |-> 0,
                          panic |-> PanicOffsetTooLarge ]
        ELSE /\ thdr' = SetOffset(thdr, w)
             /\ hres' = [ op |-> "SetOffset", arg |-> w, out |-> 0, panic |-> NoPanic ]
    /\ hprev' = thdr
    /\ UNCHANGED notHdr

\* tcp.SetFlags(v)
DoSetFlags ==
    /\ \E v \in SetFlagsArgs :
        /\ thdr' = SetFlags(thdr, v)
        /\ hres' = [ op |-> "SetFlags", arg |-> v, out |-> 0, panic |-> NoPanic ]
    /\ hprev' = thdr
    /\ UNCHANGED notHdr

\* n := tcp.OptionsLength()
DoOptionsLength ==
    /\ hres' = IF OffsetPanics(thdr)
               THEN [ op |-> "OptionsLength", arg |-> 0, out |-> 0,
                      panic |-> PanicBadOffset ]
               ELSE [ op |-> "OptionsLength", arg |-> 0, out |-> OptionsLength(thdr),
                      panic |-> NoPanic ]
    /\ hprev' = thdr
    /\ UNCHANGED thdr
    /\ UNCHANGED notHdr

NextHdr == DoDecodeTCPHeader \/ DoSetOffset \/ DoSetFlags \/ DoOptionsLength

---------------------------------------------------------------------------
(* connState.frameRcv (connstate.go), called on its own.                   *)

\* a <= b as uint32
U32LessEq(a, b) == a[1] < b[1] \/ (a[1] = b[1] /\ a[2] <= b[2])

\* a > b as uint32
U32Greater(a, b) == ~ U32LessEq(a, b)

\* func (cs *connState) frameRcv(hdr *dgrams.TCPHeader) (err error)
\*   case hdr.Ack <= cs.snd.UNA: err = errors.New("bad ack")
\*   case hdr.Ack > cs.snd.NXT:  err = errors.New("bad ack")
\* The function has no statement after "if err != nil { return err }"; the
\* accepting path is taken to return the nil err.
frameRcv(c, hdr) ==
    IF U32LessEq(hdr.Ack, c.snd.UNA) THEN ErrBadAck
    ELSE IF U32Greater(hdr.Ack, c.snd.NXT) THEN ErrBadAck
    ELSE NoErr

\* Sequence numbers on both sides of the wrap at 2^32 and of the sign
\* change at 2^31: 0xfffffffe, 0xffffffff, 0, 1, 2, 0x7fffffff, 0x80000000.
SeqEdges ==
    { U32(65535, 65534), U32(65535, 65535), U32Zero, U32(0, 1), U32(0, 2),
      U32(32767, 65535), U32(32768, 0) }

NoFrameRcv == [ called |-> FALSE, una |-> U32Zero, nxt |-> U32Zero,
                ack |-> U32Zero, err |-> NoErr ]

InitFrameRcv == frv = NoFrameRcv

\* err := cs.frameRcv(hdr), on a connState whose send space is (una, nxt).
DoFrameRcv ==
    /\ \E una \in SeqEdges, nxt \in SeqEdges, ack \in SeqEdges :
        LET c   == [ ZeroConnState EXCEPT !.snd.UNA = una, !.snd.NXT = nxt ]
            hdr == [ ZeroTCPHeader EXCEPT !.Ack = ack ]
        IN  frv' = [ called |-> TRUE, una |-> una, nxt |-> nxt, ack |-> ack,
                     err |-> frameRcv(c, hdr) ]
    /\ UNCHANGED notFrameRcv

NextFrameRcv == DoFrameRcv

Init == InitSocket /\ InitConc /\ InitCRC /\ InitHdr /\ InitFrameRcv

Spec == Init /\ [][Next]_vars

SpecConc == Init /\ [][NextConc]_vars

SpecCRC == Init /\ [][NextCRC]_vars

SpecHdr == Init /\ [][NextHdr]_vars

SpecFrameRcv == Init /\ [][NextFrameRcv]_vars

---------------------------------------------------------------------------
(* Properties.  They are stated on the state the caller sees when a        *)
(* RecvEthernet call has returned: buf is the frame, pre the connState      *)
(* before the call, cs the connState after it, ret the result.              *)

Returned == pc = "done" /\ ret.op = "RecvEthernet"

\* The fields of a frame as the wire format lays them out (Ethernet header
\* 14 bytes, IPv4 header 20 bytes, TCP header after them); meaningful for
\* buffers of at least 54 bytes.
FrameEtherType(b)   == BEUint16(b, 12)
FrameTotalLength(b) == BEUint16(b, 16)
FrameProtocol(b)    == At(b, 23)
FrameSeq(b)         == BEUint32(b, 38)
FrameAck(b)         == BEUint32(b, 42)
FrameOffsetWords(b) == At(b, 46) \div 16
FrameFlags(b)       == BEUint16(b, 46) % 512
FrameWindow(b)      == BEUint16(b, 48)

\* The first of the eight checks of the ingestion pipeline that a buffer
\* fails, in unbounded arithmetic; NoErr when it fails none.
FirstFailure(b) ==
    IF Len(b) > 65535 THEN ErrTooLong
    ELSE IF Len(b) < 14 + 20 + 20 THEN ErrTooShort
    ELSE IF FrameEtherType(b) = 33024 THEN ErrVLAN
    ELSE IF FrameEtherType(b) # 2048 THEN ErrNotIPv4
    ELSE IF 14 + FrameTotalLength(b) > Len(b) THEN ErrTotalLength
    ELSE IF FrameProtocol(b) # 6 THEN ErrNotTCP
    ELSE IF 4 * FrameOffsetWords(b) < 20 THEN ErrGarbageOffset
    ELSE IF 14 + 20 + 4 * FrameOffsetWords(b) > Len(b) THEN ErrPayloadOffset
    ELSE NoErr

\* A frame that passes all eight checks.
ValidFrame(b) == FirstFailure(b) = NoErr

\* A well-formed frame: it passes the checks and its datagram holds at least
\* the IPv4 and the TCP header.
WellFormed(b) == ValidFrame(b) /\ FrameTotalLength(b) >= 20 + 4 * FrameOffsetWords(b)

\* A well-formed frame whose segment carries no payload.
NoPayload(b) == ValidFrame(b) /\ FrameTotalLength(b) = 20 + 4 * FrameOffsetWords(b)

\* C1: a well-formed frame without TCP payload and with exactly the SYN flag,
\* received by a socket in Listen state, is answered with a nil error and
\* payloadStart = payloadEnd.
C1_SynWithoutPayload ==
    (Returned /\ pre.state = StateListen /\ NoPayload(buf) /\ FrameFlags(buf) = FlagTCP_SYN)
        => /\ ret.panic = NoPanic
           /\ ret.err = NoErr
           /\ ret.payloadStart = ret.payloadEnd

\* C1 witness: packetSyn received in Listen state, the offsets both at the
\* end of the 74-byte frame.
C1_Witness ==
    /\ Returned /\ pre.state = StateListen /\ buf = packetSyn
    /\ ret.err = NoErr /\ ret.payloadStart = 74 /\ ret.payloadEnd = 74

\* C2 (as claimed): a SYN-only segment (of a well-formed frame) arriving in
\* Listen state leaves the connection in SynRcvd with rcv.irs = seq,
\* rcv.NXT = seq + 1 and rcv.WND = the segment's window.
C2_SynMovesToSynRcvd ==
    (Returned /\ pre.state = StateListen /\ WellFormed(buf) /\ FrameFlags(buf) = FlagTCP_SYN)
        => /\ cs.state = StateSynRcvd
           /\ cs.rcv.irs = FrameSeq(buf)
           /\ cs.rcv.NXT = U32Add(FrameSeq(buf), 1)
           /\ cs.rcv.WND = U32FromU16(FrameWindow(buf))

\* C3 (as claimed): whenever RecvEthernet returns a nil error the offsets
\* satisfy payloadStart <= payloadEnd <= len(buf).
C3_OffsetsOrdered ==
    (Returned /\ ret.panic = NoPanic /\ ret.err = NoErr)
        => ret.payloadStart <= ret.payloadEnd /\ ret.payloadEnd <= Len(buf)

\* C4 (as claimed): RecvEthernet reports the error of the first of the eight
\* checks that fails, and the segment reaches rx only if none fails.
C4_FailFastOrder ==
    Returned =>
        /\ ret.panic = NoPanic
        /\ ~ ValidFrame(buf) => (ret.err = FirstFailure(buf) /\ ~ ret.rxCalled)
        /\ ValidFrame(buf) => ret.rxCalled

\* C5 (as claimed): a frame that passes the length, EtherType, total-length
\* and protocol checks and whose data offset is below 5 words is answered
\* with the malformed-offset error: no panic, rx not reached.
C5_OffsetFloor ==
    (Returned /\ FirstFailure(buf) = ErrGarbageOffset)
        => ret.panic = NoPanic /\ ret.err = ErrGarbageOffset /\ ~ ret.rxCalled

\* C6 (as claimed): a frame that gets as far as the total-length check and
\* whose 14 + IPv4 total length exceeds the buffer length is rejected with
\* the truncated-frame error.  (Stated for frames whose protocol and data
\* offset are in order, so that nothing else is wrong with the frame.)
C6_TruncatedRejected ==
    (Returned /\ FirstFailure(buf) = ErrTotalLength
              /\ FrameProtocol(buf) = 6 /\ FrameOffsetWords(buf) >= 5)
        => ret.panic = NoPanic /\ ret.err = ErrTotalLength /\ ~ ret.rxCalled

\* C7: RecvEthernet never reads buf at an index >= len(buf).
C7_NoReadPastEnd ==
    Returned => ret.maxRead < Len(buf) /\ ret.panic # PanicIndex

\* C7 witness: the last byte of the shortest accepted buffer is read.
C7_Witness ==
    Returned /\ Len(buf) = 54 /\ ret.maxRead = 53 /\ ret.rxCalled

\* C8: in Closed state every segment that passes frame validation is
\* rejected with the connection-closed error and the connState is unchanged.
C8_ClosedRejects ==
    (Returned /\ pre.state = StateClosed /\ (ret.rxCalled \/ ValidFrame(buf)))
        => ret.rxCalled /\ ret.err = ErrClosed /\ cs = pre

\* C8 witness: packetSyn received by a socket that is Closed.
C8_Witness ==
    /\ Returned /\ pre = ZeroConnState /\ buf = packetSyn
    /\ ret.rxCalled /\ ret.err = ErrClosed

\* C9: in Listen state a segment whose flags are not exactly SYN is ignored:
\* nil error, state Listen, sequence spaces unchanged.
C9_ListenIgnoresNonSyn ==
    (Returned /\ pre.state = StateListen /\ ret.rxCalled /\ FrameFlags(buf) # FlagTCP_SYN)
        => ret.err = NoErr /\ cs = pre /\ cs.state = StateListen

\* C9 witness: a SYN+ACK segment received in Listen state before any SYN.
C9_Witness ==
    /\ Returned /\ pre = SetState(ZeroConnState, StateListen) /\ ret.rxCalled
    /\ FrameFlags(buf) = FlagTCP_SYN + FlagTCP_ACK
    /\ ret.err = NoErr

\* C10 (as claimed): in SynRcvd state a segment with ACK = snd.UNA or
\* ACK = snd.NXT + 1 is rejected with the bad-ACK error, and one with
\* ACK = snd.NXT is accepted, leaving snd.UNA = ACK and the state Established.
C10_SynRcvdAckWindow ==
    (Returned /\ pre.state = StateSynRcvd /\ WellFormed(buf))
        => /\ FrameAck(buf) = pre.snd.UNA => ret.err = ErrBadAck
           /\ FrameAck(buf) = U32Add(pre.snd.NXT, 1) => ret.err = ErrBadAck
           /\ (FrameAck(buf) = pre.snd.NXT /\ FrameAck(buf) # pre.snd.UNA)
                => (ret.err = NoErr /\ cs.snd.UNA = FrameAck(buf)
                    /\ cs.state = StateEstablished)

---------------------------------------------------------------------------
(* Properties of repeated deliveries and of the sequence spaces.           *)

\* The same buffer has been delivered twice in a row: first holds the first
\* call's pre and ret; pre, ret and cs are those of the second.
Repeated == pc = "again"

\* C11: when RecvEthernet rejects a buffer with an error, a second call with
\* the same buffer returns the same error, and neither call changes the
\* connection state or a field of the sequence spaces.
C11_RejectionIdempotent ==
    (Repeated /\ first.ret.panic = NoPanic /\ first.ret.err # NoErr)
        => /\ ret.panic = NoPanic
           /\ ret.err = first.ret.err
           /\ pre = first.pre
           /\ cs = pre

\* C11 witness: a frame with a total length beyond the buffer, delivered
\* twice to a listening socket that has accepted a SYN before.
C11_Witness ==
    /\ Repeated /\ first.ret.err = ErrTotalLength /\ ret.err = ErrTotalLength
    /\ cs.state = StateListen /\ cs.snd.NXT = U32(0, 1)

\* A call of Listen or RecvEthernet has returned (first or second delivery).
CallReturned == pc \in { "done", "again" } /\ ret.op \in { "Listen", "RecvEthernet" }

\* A SYN has been accepted on the connState c: accepting a SYN is the only
\* assignment that makes snd.WND the accept window, and nothing resets it.
HandshakeStarted(c) == c.snd.WND = U32FromU16(rxSendWND)

\* The segment of frame b carries flag f.
HasFlag(b, f) == (FrameFlags(b) \div f) % 2 = 1

\* C12 (as claimed): once a SYN has been accepted, no later Listen call or
\* segment arrival changes snd.iss or rcv.irs.
C12_IssIrsImmutable ==
    (CallReturned /\ HandshakeStarted(pre))
        => cs.snd.iss = pre.snd.iss /\ cs.rcv.irs = pre.rcv.irs

\* C14 (as claimed): the arrival of a segment with the RST flag moves the
\* connection to Closed, whatever state it was in.
C14_RstCloses ==
    (Returned /\ WellFormed(buf) /\ HasFlag(buf, FlagTCP_RST)) => cs.state = StateClosed

\* C15: in a state other than Closed, Listen and SynRcvd every segment that
\* passes frame validation is answered with the 'unhandled state transition'
\* error, which names the state, and the connState is unchanged.
C15_UnhandledReported ==
    (Returned /\ pre.state \notin { StateClosed, StateListen, StateSynRcvd }
              /\ (ret.rxCalled \/ ValidFrame(buf)))
        => /\ ret.rxCalled
           /\ ret.err # NoErr
           /\ ret.err = "[ERR] unhandled state transition:" \o StateString(pre.state)
           /\ \A st \in States \ { pre.state } :
                 ret.err # "[ERR] unhandled state transition:" \o StateString(st)
           /\ cs = pre

\* C15 witness: packetSyn arrives at an Established connection.
C15_Witness ==
    /\ Returned /\ pre.state = StateEstablished /\ buf = packetSyn
    /\ ret.err = "[ERR] unhandled state transition:StateEstablished"
    /\ cs = pre

\* C16 (as claimed): the iss chosen for a handshake is not a fixed value:
\* a SYN accepted after an earlier one gets another iss than that one.
C16_IssNotRepeated ==
    (Returned /\ HandshakeStarted(pre) /\ pre.state = StateListen
              /\ WellFormed(buf) /\ FrameFlags(buf) = FlagTCP_SYN)
        => cs.snd.iss # pre.snd.iss

\* a - b in uint32 arithmetic
U32Sub(a, b) ==
    LET lo     == a[2] - b[2]
        borrow == IF lo < 0 THEN 1 ELSE 0
    IN  U32((a[1] - b[1] - borrow + Pow16) % Pow16, (lo + Pow16) % Pow16)

\* a <= b in the modular order of sequence numbers: int32(a - b) <= 0
SeqLEq(a, b) == a = b \/ U32Sub(a, b)[1] >= 32768

\* C17: right after a SYN is accepted in Listen state snd.UNA = snd.iss and
\* snd.NXT = snd.iss + 1 (mod 2^32); and in every state snd.UNA does not
\* follow snd.NXT in the modular order.
C17_SendSpaceOrdered ==
    /\ (Returned /\ pre.state = StateListen /\ ret.rxCalled
                 /\ FrameFlags(buf) = FlagTCP_SYN)
          => (cs.snd.UNA = cs.snd.iss /\ cs.snd.NXT = U32Add(cs.snd.iss, 1))
    /\ SeqLEq(cs.snd.UNA, cs.snd.NXT)

\* C17 witness: a SYN has just been accepted, snd.NXT is one past snd.UNA.
C17_Witness ==
    /\ Returned /\ pre.state = StateListen /\ ret.rxCalled
    /\ FrameFlags(buf) = FlagTCP_SYN
    /\ cs.snd.UNA = U32Zero /\ cs.snd.NXT = U32(0, 1)

---------------------------------------------------------------------------
(* Properties of the goroutines sharing one Socket.                        *)

\* The positions between Lock() and the deferred Unlock().
Inside(p) == cpc[p] \in { "rx_switch", "rx_snd", "rx_irs", "rx_nxt", "rx_wnd",
                          "rx_unlock", "st_read", "st_unlock" }

\* C13: every read or write of s.cs by rx and by State is made by the
\* goroutine that holds the mutex; at most one goroutine is between Lock
\* and Unlock; a goroutine that has returned (by any path of rx: the early
\* return in Listen, an error return, or the end of the function) does not
\* hold the mutex; and whenever the mutex is held its holder is inside the
\* critical section, where every step is enabled, so a waiting Lock() is
\* never blocked for ever.
C13_MutexDiscipline ==
    /\ acc.held
    /\ \A p \in Procs : Inside(p) => mu = p
    /\ \A p, q \in Procs : (Inside(p) /\ Inside(q)) => p = q
    /\ \A p \in Procs : cpc[p] = "idle" => mu # p
    /\ mu # Unlocked => Inside(mu)
    /\ (\E p \in Procs : cpc[p] \in { "rx_lock", "st_lock" })
          => (mu = Unlocked \/ Inside(mu))

\* One goroutine has just left rx by the early return of the Listen case
\* and the mutex is free again, while the other one waits for it.
C13_Witness ==
    /\ cret[1].op = "RecvEthernet" /\ cret[1].path = "early" /\ cpc[1] = "idle"
    /\ cpc[2] = "rx_lock"
    /\ mu = Unlocked

\* The receive space that accepting the segment of buffer b leaves.
RcvSpaceOf(b) == rxAcceptSyn(ZeroConnState, DecodeTCPHeader(SliceFrom(b, TCPAt))).rcv

\* C24: whenever no goroutine is between Lock and Unlock, s.cs.rcv is
\* either untouched or exactly what one delivered SYN gives (irs, NXT and
\* WND from the same segment), and s.cs.snd and every field of s.cs.rcv
\* were stored by the same call of rx.
C24_NoMixedSpaces ==
    mu = Unlocked =>
        /\ \/ ccs.rcv = ZeroRcvSpace /\ wr = NoWriters
           \/ \E b \in ConcFrames :
                /\ ~ rxListenIgnores(DecodeTCPHeader(SliceFrom(b, TCPAt)))
                /\ ccs.rcv = RcvSpaceOf(b)
        /\ wr.irs = wr.snd /\ wr.NXT = wr.snd /\ wr.WND = wr.snd

\* Goroutine 2 has delivered the SYN with sequence number 2 and returned;
\* goroutine 1 is waiting at Lock with the SYN with sequence number 1.
C24_Witness ==
    /\ mu = Unlocked
    /\ cpc[1] = "rx_lock" /\ cloc[1].hdr.Seq = U32(0, 1) /\ Flags(cloc[1].hdr) = FlagTCP_SYN
    /\ cret[2].path = "syn" /\ cpc[2] = "idle"
    /\ wr.snd = TagOf(2, [ Seq |-> U32(0, 2) ])
    /\ ccs.rcv.irs = U32(0, 2) /\ ccs.rcv.WND = U32FromU16(2)

---------------------------------------------------------------------------
(* Properties of CRC_RFC791.                                               *)

\* Sum has just returned, and only Writes were made between the zero state
\* and the first Sum.
FirstSum == cres.op = "Sum" /\ cphase = "summed"

\* Sum() of a zero-valued accumulator after one Write of the whole sequence.
SingleWriteSum(b) == Sum(Write(ZeroCRC, b).c).sum

\* C18: whatever way a byte sequence is cut into consecutive slices for
\* successive Write calls on a zero-valued accumulator, Sum() returns what
\* it returns after a single Write of the whole sequence.  (Stated for the
\* histories made of small slices; a history with blocks is 64 KiB or more.)
C18_ChunkedEqualsSingle ==
    (FirstSum /\ hist.blocks = 0) => cres.sum = SingleWriteSum(Bytes(hist))

\* Three bytes written as a slice of one and a slice of two: the first byte
\* is carried into the second call as the high byte of a word.
C18_Witness ==
    /\ FirstSum /\ wasReset = "no" /\ carried
    /\ hist = [ blocks |-> 0, tail |-> << 1, 255, 1 >> ]
    /\ cres.sum = MaxUint16 - (511 + 256)

\* a + b in 16-bit one's-complement arithmetic: the carry out of bit 15 is
\* added back in at bit 0.
OnesAdd(a, b) == IF a + b > MaxUint16 THEN a + b - MaxUint16 ELSE a + b

\* Word i of b, big-endian, an odd trailing byte padded with a zero byte on
\* the right.
PaddedWordAt(b, i) ==
    At(b, 2 * i) * 256 + (IF 2 * i + 1 < Len(b) THEN At(b, 2 * i + 1) ELSE 0)

RECURSIVE OnesSumWords(_, _, _)
OnesSumWords(b, lo, hi) ==
    IF hi <= lo THEN 0
    ELSE IF hi = lo + 1 THEN PaddedWordAt(b, lo)
    ELSE OnesAdd(OnesSumWords(b, lo, (lo + hi) \div 2),
                 OnesSumWords(b, (lo + hi) \div 2, hi))

\* The one's-complement sum of the words of a byte sequence.
OnesSum(b) == OnesSumWords(b, 0, (Len(b) + 1) \div 2)

BlockOnesSum == OnesSum(Block)

RECURSIVE OnesSumBlocks(_)
OnesSumBlocks(k) == IF k = 0 THEN 0 ELSE OnesAdd(BlockOnesSum, OnesSumBlocks(k - 1))

\* The one's-complement sum of the words of a history: a block has an even
\* number of bytes, so the words of the tail start at the tail's first byte.
OnesSumOf(h) == OnesAdd(OnesSumBlocks(h.blocks), OnesSum(h.tail))

\* C19: for any byte sequence written to a zero-valued accumulator, the
\* one's-complement sum of the sequence's words (an odd trailing byte padded
\* with zero) added to the value Sum() returns gives 0xFFFF.
C19_ChecksumRoundTrip ==
    FirstSum => OnesAdd(OnesSumOf(hist), cres.sum) = MaxUint16

\* C20: after Reset(), whatever calls came before it (also ones that left an
\* odd byte pending), every Write and every Sum returns what it returns on
\* a zero-valued accumulator given the same calls, and the accumulator is
\* in the state that one is in.
C20_ResetIsFresh ==
    (wasReset # "no" /\ cres.op \in { "Write", "Sum" })
        => (cres = tres /\ crc = twin)

\* Reset was called with an odd byte pending; three bytes were then written
\* as one byte and two bytes, and Sum returns their checksum.
C20_Witness ==
    /\ wasReset = "pending" /\ cres.op = "Sum" /\ cphase = "summed"
    /\ hist = [ blocks |-> 0, tail |-> << 1, 255, 1 >> ]
    /\ cres.sum = MaxUint16 - (511 + 256)

---------------------------------------------------------------------------
(* Properties of frameRcv and of the TCPHeader accessors.                  *)

\* int32(a - b) > 0
SeqAfter(a, b) == a # b /\ U32Sub(a, b)[1] < 32768

\* C21: frameRcv accepts an ACK exactly when it lies in (snd.UNA, snd.NXT]
\* in the modular order of 32-bit sequence numbers, that is when
\* int32(ack - snd.UNA) > 0 and int32(ack - snd.NXT) <= 0; so with
\* snd.UNA = 0xffffffff and snd.NXT = 0 an ACK of 0 is accepted.
C21_AckModular ==
    frv.called =>
        (frv.err = NoErr <=> (SeqAfter(frv.ack, frv.una) /\ SeqLEq(frv.ack, frv.nxt)))

\* C22: for a header whose offset field w is in 5..15, OptionsLength()
\* returns OffsetInBytes() - 20 = 4*w - 20.
C22_OptionsLength ==
    (hres.op = "OptionsLength" /\ OffsetField(hprev) \in 5..15)
        => /\ hres.panic = NoPanic
           /\ hres.out = OffsetInBytes(hprev) - 20
           /\ hres.out = 4 * OffsetField(hprev) - 20

\* C23: after SetOffset(w) with w in 5..15, on any header, Offset() returns
\* w and Flags() returns what it returned before the call.
C23_SetOffset ==
    (hres.op = "SetOffset" /\ hres.arg \in 5..15)
        => /\ hres.panic = NoPanic
           /\ ~ OffsetPanics(thdr)
           /\ Offset(thdr) = hres.arg
           /\ Flags(thdr) = Flags(hprev)

\* C25: Write with an empty slice never fails and leaves sum, excedent and
\* needsPad as they were, in every state of the accumulator, also when an
\* odd byte is pending.
C25_EmptyWrite ==
    (cres.op = "Write" /\ cres.len = 0) => (cres.panic = NoPanic /\ cres.same)

====
